---- MODULE Spec2Model ----
(***************************************************************************)
(* State-machine model of app.py: the Streamlit ATS resume analyzer.       *)
(*                                                                         *)
(* One script run of main_app is one atomic step up to the first blocking  *)
(* point (the LLM request).  Inside analyze_resume_ats every request and   *)
(* every time.sleep is a step of its own, so that the order of requests,   *)
(* sleeps and error reports can be observed.                               *)
(*                                                                         *)
(* Text is modelled as a sequence of characters; Python values that may be *)
(* None are records tagged by the field t.                                 *)
(***************************************************************************)
EXTENDS Integers, Sequences, FiniteSets, TLC

VARIABLES
    api_key,        \* os.environ holds a non-empty GEMINI_API_KEY
    dotenv_file,    \* a .env file defining GEMINI_API_KEY exists on disk
    client_cache,   \* st.cache_resource entry of get_gemini_client
    uploaded_file,  \* state of the st.file_uploader widget
    jd_text,        \* state of the st.text_area widget
    messages,       \* st.error / st.warning calls of this script run outside analyze_resume_ats
    pc,             \* "idle", "generate_content" (line 109) or "sleep" (line 122)
    called,         \* analyze_resume_ats was invoked in this script run
    call_args,      \* the (resume_text, jd_text) it was invoked with
    attempt,        \* loop variable of `for attempt in range(max_retries)`
    outcomes,       \* what each generate_content call of this invocation did
    sleeps,         \* the wait_time of each time.sleep of this invocation
    errors,         \* st.error calls made inside analyze_resume_ats
    report,         \* value returned by analyze_resume_ats
    displayed       \* report handed to display_report

vars == <<api_key, dotenv_file, client_cache, uploaded_file, jd_text, messages,
          pc, called, call_args, attempt, outcomes, sleeps, errors, report, displayed>>

(***************************************************************************)
(* Bounds and program constants                                            *)
(***************************************************************************)
MaxPages == 2

max_retries == 3

(***************************************************************************)
(* Values                                                                  *)
(***************************************************************************)
None == [t |-> "None"]

Str(s) == [t |-> "str", s |-> s]

\* Python truthiness of an Optional[str]
Truthy(v) == v.t = "str" /\ v.s # <<>>

Whitespace == {" ", "\n"}

\* text.strip() is empty: every character is whitespace
IsBlank(text) == \A i \in 1..Len(text) : text[i] \in Whitespace

(***************************************************************************)
(* JSON values of a model response                                         *)
(***************************************************************************)
JInt(n) == [t |-> "int", i |-> n]

\* a JSON string holding the decimal digits of n, such as "87"
JNumString(n) == [t |-> "numstr", i |-> n]

JString(s) == [t |-> "str", s |-> s]

JNull == [t |-> "null"]

JAbsent == [t |-> "absent"]

JObject(k, c, f) == [t |-> "obj", keywordMatch |-> k, contentImpact |-> c,
                     formattingAndStructure |-> f]

\* response.text: JSON text that parses (wellformed) to an object with these
\* members (JAbsent: no such member), or text that is not JSON at all
Doc(sc, su, fb, ex) == [wellformed |-> TRUE, score |-> sc, summary |-> su,
                        feedback |-> fb, extra |-> ex]

Malformed == [wellformed |-> FALSE, score |-> JAbsent, summary |-> JAbsent,
              feedback |-> JAbsent, extra |-> FALSE]

Scores == {-5, 0, 87, 100, 150}

GoodFeedback == JObject(JString("a"), JString("b"), JString("c"))

BadFeedbacks == {JAbsent, JNull, JString("a"),
                 JObject(JAbsent, JString("b"), JString("c")),
                 JObject(JString("a"), JInt(1), JString("c")),
                 JObject(JString("a"), JString("b"), JNull)}

Responses ==
    {Malformed}
    \cup {Doc(JInt(n), JString("S"), GoodFeedback, FALSE) : n \in Scores}
    \cup {Doc(sc, JString("S"), GoodFeedback, FALSE) :
             sc \in {JNumString(87), JString("high"), JNull, JAbsent}}
    \cup {Doc(JInt(87), su, GoodFeedback, FALSE) :
             su \in {JString(""), JInt(1), JAbsent}}
    \cup {Doc(JInt(87), JString("S"), fb, FALSE) : fb \in BadFeedbacks}
    \cup {Doc(JInt(87), JString("S"), GoodFeedback, TRUE)}

(***************************************************************************)
(* SchemaDefinition: the pydantic models Feedback and ATSResult            *)
(***************************************************************************)
\* `field: str`
ValidStr(v) == v.t = "str"

\* `score: int`, validated in pydantic's default (lax) mode: a JSON integer,
\* or a JSON string of digits, which is converted to that integer
ValidInt(v) == v.t \in {"int", "numstr"}

\* class Feedback
ValidFeedback(v) ==
    /\ v.t = "obj"
    /\ ValidStr(v.keywordMatch)
    /\ ValidStr(v.contentImpact)
    /\ ValidStr(v.formattingAndStructure)

\* variant: the first two feedback fields exchanged
FeedbackSwapped(v) == [keywordMatch |-> v.contentImpact.s,
                       contentImpact |-> v.keywordMatch.s,
                       formattingAndStructure |-> v.formattingAndStructure.s]

Feedback(v) == [keywordMatch |-> v.keywordMatch.s,
                contentImpact |-> v.contentImpact.s,
                formattingAndStructure |-> v.formattingAndStructure.s]

\* class ATSResult: no bound is declared on score; members not declared are ignored
ValidATSResult(text) ==
    /\ text.wellformed
    /\ ValidInt(text.score)
    /\ ValidStr(text.summary)
    /\ ValidFeedback(text.feedback)

\* variant: the score forced into 0..100
ATSResultClamped(sc, su, fb) ==
    [t |-> "ATSResult", score |-> IF sc < 0 THEN 0 ELSE IF sc > 100 THEN 100 ELSE sc,
     summary |-> su, feedback |-> fb]

ATSResult(sc, su, fb) == [t |-> "ATSResult", score |-> sc, summary |-> su, feedback |-> fb]

\* ATSResult.model_validate_json(json_data): the instance, or ValidationError raised
\* (reported here as None; the caller tests ValidATSResult first)
model_validate_json(text) ==
    IF ValidATSResult(text)
    THEN ATSResult(text.score.i, text.summary.s, Feedback(text.feedback))
    ELSE None

(***************************************************************************)
(* PDF extraction                                                          *)
(***************************************************************************)
NoFile == [t |-> "None", corrupt |-> FALSE, pages |-> <<>>]

\* an uploaded PDF: PdfReader raises on it (corrupt), or it has these pages, each
\* given by what page.extract_text() returns (<<>>: nothing, an image-only page)
Pdf(c, ps) == [t |-> "pdf", corrupt |-> c, pages |-> ps]

PageTexts == {<<>>, <<" ">>, <<"x">>}

PageSeqs == UNION {[1..n -> PageTexts] : n \in 0..MaxPages}

PDFs == {Pdf(TRUE, <<>>)} \cup {Pdf(FALSE, ps) : ps \in PageSeqs}

JDTexts == {<<>>, <<" ">>, <<"j">>}

RECURSIVE ConcatPages(_)
\* the loop over reader.pages: text += page_text + "\n" for pages with text
ConcatPages(pages) ==
    IF pages = <<>> THEN <<>>
    ELSE (IF Head(pages) # <<>> THEN Head(pages) \o <<"\n">> ELSE <<>>)
         \o ConcatPages(Tail(pages))

\* the st.warning / st.error calls of extract_text_from_pdf
extract_messages(f) ==
    IF f.corrupt THEN {"pdf_read_error"}
    ELSE (IF \E i \in 1..Len(f.pages) : f.pages[i] = <<>> THEN {"page_warning"} ELSE {})
         \cup (IF IsBlank(ConcatPages(f.pages)) THEN {"extraction_failed"} ELSE {})

\* variant: `if not text` in place of `if not text.strip()`
extract_text_no_strip(f) ==
    IF f.corrupt THEN None
    ELSE IF ConcatPages(f.pages) = <<>> THEN None
    ELSE Str(ConcatPages(f.pages))

extract_text_from_pdf(f) ==
    IF f.corrupt THEN None
    ELSE IF IsBlank(ConcatPages(f.pages)) THEN None
    ELSE Str(ConcatPages(f.pages))

(***************************************************************************)
(* Client construction                                                     *)
(***************************************************************************)
\* body of get_gemini_client: key is bool(os.getenv("GEMINI_API_KEY")),
\* ctor_ok says whether genai.Client() returns rather than raises
new_client(key, ctor_ok) == IF key /\ ctor_ok THEN "client" ELSE "None"

\* the st.error calls of that body
new_client_messages(key, ctor_ok) ==
    IF ~key THEN {"missing_key"}
    ELSE IF ~ctor_ok THEN {"client_init_failed"}
    ELSE {}

Unset == [value |-> "unset", msgs |-> {}]

\* @st.cache_resource: the body runs only while nothing is cached; what it
\* returns (None included) and shows is stored, and every later call gets that
cache_resource(cache, key, ctor_ok) ==
    IF cache = Unset
    THEN [value |-> new_client(key, ctor_ok), msgs |-> new_client_messages(key, ctor_ok)]
    ELSE cache

(***************************************************************************)
(* Outcomes of client.models.generate_content                              *)
(***************************************************************************)
Exc(c, n) == [cls |-> c, code |-> n]

\* google.genai.errors.APIError: an HTTP error response (429 rate limit, 503 ...)
APIErrors == {Exc("APIError", n) : n \in {429, 503}}

\* an exception of the transport: the request got no HTTP response
TransportErrors == {Exc("ConnectError", 0)}

\* a ValueError raised by the call itself, and any other Exception
OtherErrors == {Exc("ValueError", 0), Exc("RuntimeError", 0)}

Raised(e) == [k |-> "raise", exc |-> e, text |-> Malformed]

Returned(r) == [k |-> "text", exc |-> Exc("none", 0), text |-> r]

Outcomes == {Raised(e) : e \in APIErrors \cup TransportErrors \cup OtherErrors}
            \cup {Returned(r) : r \in Responses}

\* the exception that leaves the try block of one attempt ("none": it returned)
TryBody(o) ==
    IF o.k = "raise" THEN o.exc
    ELSE IF ValidATSResult(o.text) THEN Exc("none", 0)
    ELSE Exc("ValidationError", 0)

\* isinstance, for the classes that occur: pydantic's ValidationError and
\* json.JSONDecodeError are subclasses of ValueError
IsInstance(e, c) ==
    \/ e.cls = c
    \/ c = "ValueError" /\ e.cls \in {"ValidationError", "JSONDecodeError"}
    \/ c = "Exception"

\* variant: parse and validation errors handled by the retrying clause
HandlerValueErrorRetried(e) ==
    IF IsInstance(e, "APIError") \/ IsInstance(e, "ValueError") THEN "APIError"
    ELSE "Exception"

\* variant: every exception other than a parse error handled by the retrying clause
HandlerExceptionRetried(e) ==
    IF IsInstance(e, "JSONDecodeError") \/ IsInstance(e, "ValueError") THEN "ValueError"
    ELSE "APIError"

\* the except clause that handles e, in the order the clauses are written
Handler(e) ==
    IF IsInstance(e, "APIError") THEN "APIError"
    ELSE IF IsInstance(e, "JSONDecodeError") \/ IsInstance(e, "ValueError") THEN "ValueError"
    ELSE "Exception"

\* variant: `if attempt < max_retries`
ShouldRetryOffByOne(a) == a < max_retries

\* variant: the retry branch always taken
ShouldRetryAlways(a) == TRUE

\* variant: the retry branch never taken
ShouldRetryNever(a) == FALSE

\* `if attempt < max_retries - 1`
ShouldRetry(a) == a < max_retries - 1

\* variant: `2 * attempt`
wait_time_linear(a) == 2 * a

\* `wait_time = 2 ** attempt`
wait_time(a) == 2 ^ a

\* `for attempt in range(max_retries)`: is there an iteration for a
InRange(a) == a < max_retries

Error(kind, e) == [kind |-> kind, exc |-> e]

(***************************************************************************)
(* main_app: one script run                                                *)
(***************************************************************************)
NoArgs == [resume_text |-> <<>>, jd_text |-> <<>>]

\* the branch taken under `if st.button(...)`
button_check(button, f, resume_text, jd) ==
    IF ~button THEN "not_pressed"
    ELSE IF f.t = "None" THEN "no_upload"
    ELSE IF ~Truthy(resume_text) THEN "no_resume_text"
    ELSE IF jd = <<>> THEN "no_jd"
    ELSE "analyze"

\* a script run with the widgets holding f and jd; it ends the run, or stops
\* inside analyze_resume_ats at its first request
MainApp(button, f, jd, ctor_ok) ==
    LET key == api_key \/ dotenv_file
        entry == cache_resource(client_cache, key, ctor_ok)
        resume_text == IF f.t = "None" THEN None ELSE extract_text_from_pdf(f)
        extraction == IF f.t = "None" THEN {} ELSE extract_messages(f)
        check == button_check(button, f, resume_text, jd)
    IN  /\ pc = "idle"
        /\ api_key' = key
        /\ client_cache' = entry
        /\ uploaded_file' = f
        /\ jd_text' = jd
        /\ attempt' = 0
        /\ outcomes' = <<>>
        /\ sleeps' = <<>>
        /\ errors' = <<>>
        /\ report' = None
        /\ displayed' = None
        /\ UNCHANGED dotenv_file
        /\ IF entry.value = "None"
           THEN /\ messages' = entry.msgs
                /\ pc' = "idle"
                /\ called' = FALSE
                /\ call_args' = NoArgs
           ELSE IF check = "analyze"
           THEN /\ messages' = entry.msgs \cup extraction
                /\ pc' = "generate_content"
                /\ called' = TRUE
                /\ call_args' = [resume_text |-> resume_text.s, jd_text |-> jd]
           ELSE /\ messages' = entry.msgs \cup extraction
                                \cup (IF button THEN {check} ELSE {})
                /\ pc' = "idle"
                /\ called' = FALSE
                /\ call_args' = NoArgs

(***************************************************************************)
(* analyze_resume_ats: one attempt, one sleep                              *)
(***************************************************************************)
\* `return r` after the st.error calls errs, then lines 247-248 of main_app
Return(r, errs) ==
    /\ pc' = "idle"
    /\ report' = r
    /\ errors' = errors \o errs
    /\ displayed' = IF r.t = "ATSResult" THEN r ELSE None
    /\ UNCHANGED <<attempt, sleeps>>

\* one iteration of the loop: the request, and the try block's handling of o
AnalyzeAttempt(o) ==
    LET e == TryBody(o)
    IN  /\ pc = "generate_content"
        /\ outcomes' = Append(outcomes, o)
        /\ IF e.cls = "none" THEN Return(model_validate_json(o.text), <<>>)
           ELSE IF Handler(e) = "APIError"
           THEN IF ShouldRetry(attempt)
                THEN /\ sleeps' = Append(sleeps, wait_time(attempt))
                     /\ pc' = "sleep"
                     /\ UNCHANGED <<attempt, errors, report, displayed>>
                ELSE Return(None, <<Error("exhausted", e)>>)
           ELSE IF Handler(e) = "ValueError" THEN Return(None, <<Error("parse", e)>>)
           ELSE Return(None, <<Error("unexpected", e)>>)
        /\ UNCHANGED <<api_key, dotenv_file, client_cache, uploaded_file, jd_text,
                       messages, called, call_args>>

(***************************************************************************)
(* Actions                                                                 *)
(***************************************************************************)
Init ==
    /\ api_key \in BOOLEAN
    /\ dotenv_file \in BOOLEAN
    /\ client_cache = Unset
    /\ uploaded_file = NoFile
    /\ jd_text = <<>>
    /\ messages = {}
    /\ pc = "idle"
    /\ called = FALSE
    /\ call_args = NoArgs
    /\ attempt = 0
    /\ outcomes = <<>>
    /\ sleeps = <<>>
    /\ errors = <<>>
    /\ report = None
    /\ displayed = None

\* the page is opened or reloaded
PageLoad == \E ctor_ok \in BOOLEAN : MainApp(FALSE, uploaded_file, jd_text, ctor_ok)

\* the last script run got past `if not client: return` and drew the widgets;
\* the client is then cached, and the body of get_gemini_client runs no more
WidgetsShown == client_cache.value = "client"

\* a file is put into, or removed from, the uploader
UploadFile ==
    /\ WidgetsShown
    /\ \E f \in (PDFs \cup {NoFile}) \ {uploaded_file} : MainApp(FALSE, f, jd_text, TRUE)

\* the job description text area is edited
EditJobDescription ==
    /\ WidgetsShown
    /\ \E jd \in JDTexts \ {jd_text} : MainApp(FALSE, uploaded_file, jd, TRUE)

\* the Analyze button is pressed
ClickAnalyze ==
    /\ WidgetsShown
    /\ MainApp(TRUE, uploaded_file, jd_text, TRUE)

\* the .env file is written or removed, outside the program
EditDotenv ==
    /\ pc = "idle"
    /\ dotenv_file' = ~dotenv_file
    /\ UNCHANGED <<api_key, client_cache, uploaded_file, jd_text, messages, pc, called,
                   call_args, attempt, outcomes, sleeps, errors, report, displayed>>

\* the pending generate_content call ends, with any outcome
ApiCall == \E o \in Outcomes : AnalyzeAttempt(o)

\* time.sleep returns; the loop goes on to its next iteration, or ends
WakeUp ==
    /\ pc = "sleep"
    /\ attempt' = attempt + 1
    /\ IF InRange(attempt + 1)
       THEN /\ pc' = "generate_content"
            /\ UNCHANGED <<errors, report, displayed>>
       ELSE \* the loop is over: the `return None` of line 132
            /\ pc' = "idle"
            /\ report' = None
            /\ displayed' = None
            /\ UNCHANGED errors
    /\ UNCHANGED <<api_key, dotenv_file, client_cache, uploaded_file, jd_text, messages,
                   called, call_args, outcomes, sleeps>>

Next ==
    \/ PageLoad
    \/ UploadFile
    \/ EditJobDescription
    \/ ClickAnalyze
    \/ EditDotenv
    \/ ApiCall
    \/ WakeUp

Spec == Init /\ [][Next]_vars

\* a pending request ends and a sleep ends: the call is synchronous and nothing
\* else runs meanwhile
LiveSpec == Spec /\ WF_vars(ApiCall) /\ WF_vars(WakeUp)

(***************************************************************************)
(* Properties                                                              *)
(***************************************************************************)
\* analyze_resume_ats was invoked in this script run and has returned
CallReturned == called /\ pc = "idle"

IsAPIError(o) == o.k = "raise" /\ o.exc.cls = "APIError"

IsTransportError(o) == o.k = "raise" /\ o.exc.cls = "ConnectError"

\* the response is JSON exactly of the declared shape: an integer, a string and
\* an object of three strings
Conforms(o) ==
    /\ o.k = "text"
    /\ o.text.wellformed
    /\ o.text.score.t = "int"
    /\ o.text.summary.t = "str"
    /\ o.text.feedback.t = "obj"
    /\ o.text.feedback.keywordMatch.t = "str"
    /\ o.text.feedback.contentImpact.t = "str"
    /\ o.text.feedback.formattingAndStructure.t = "str"

\* C1: a call sends at most 3 requests; when all 3 attempts fail with an API
\* error the call has returned no result and reported the exhausted-retries
\* failure with the error of the last attempt
C1_AtMostThreeRequests ==
    /\ Len(outcomes) <= 3
    /\ (Len(outcomes) = 3 /\ \A i \in 1..3 : IsAPIError(outcomes[i]))
          => /\ pc = "idle"
             /\ report = None
             /\ errors = <<Error("exhausted", outcomes[3].exc)>>

C1_Witness ==
    /\ CallReturned
    /\ Len(outcomes) = 3
    /\ \A i \in 1..3 : IsAPIError(outcomes[i])
    /\ outcomes[1].exc # outcomes[3].exc
    /\ errors = <<Error("exhausted", outcomes[3].exc)>>

\* C2: a response that fails parsing or validation on attempt k ends the call at
\* once with one parse failure: it is the last request, no sleep follows it
C2_SchemaViolationNotRetried ==
    \A k \in 1..Len(outcomes) :
        (outcomes[k].k = "text" /\ ~ValidATSResult(outcomes[k].text))
          => /\ k = Len(outcomes)
             /\ pc = "idle"
             /\ report = None
             /\ errors = <<Error("parse", Exc("ValidationError", 0))>>
             /\ Len(sleeps) = k - 1

C2_Witness ==
    /\ CallReturned
    /\ outcomes = <<Returned(Malformed)>>
    /\ sleeps = <<>>
    /\ Len(errors) = 1
    /\ errors[1].kind = "parse"

\* C3: a response that validates on attempt k ends the call at once with a
\* result and no error report: it is the last request and no sleep follows it;
\* when it is of the declared shape the result holds the response's score,
\* summary and three feedback texts
C3_ValidResponseReturned ==
    \A k \in 1..Len(outcomes) :
        /\ (outcomes[k].k = "text" /\ ValidATSResult(outcomes[k].text))
              => /\ k = Len(outcomes)
                 /\ pc = "idle"
                 /\ errors = <<>>
                 /\ Len(sleeps) = k - 1
                 /\ report.t = "ATSResult"
                 /\ displayed = report
        /\ Conforms(outcomes[k])
              => /\ report.t = "ATSResult"
                 /\ report.score = outcomes[k].text.score.i
                 /\ report.summary = outcomes[k].text.summary.s
                 /\ report.feedback.keywordMatch = outcomes[k].text.feedback.keywordMatch.s
                 /\ report.feedback.contentImpact = outcomes[k].text.feedback.contentImpact.s
                 /\ report.feedback.formattingAndStructure
                        = outcomes[k].text.feedback.formattingAndStructure.s

C3_Witness ==
    /\ CallReturned
    /\ outcomes = <<Returned(Doc(JInt(87), JString("S"), GoodFeedback, FALSE))>>
    /\ sleeps = <<>>
    /\ report = ATSResult(87, "S", [keywordMatch |-> "a", contentImpact |-> "b",
                                    formattingAndStructure |-> "c"])

\* C4: the i-th sleep lasts 2^(i-1) and follows an API error on attempt i < 3;
\* every API error on an attempt before the third is followed by a sleep; request
\* k+1 is sent only after k sleeps; fail, fail, success gives the result after
\* sleeps of 1 and 2
C4_BackoffSleeps ==
    /\ Len(sleeps) <= Len(outcomes)
    /\ Len(outcomes) <= Len(sleeps) + 1
    /\ pc = "generate_content" => Len(sleeps) = Len(outcomes)
    /\ pc = "sleep" => Len(sleeps) = Len(outcomes)
    /\ \A i \in 1..Len(sleeps) :
          /\ sleeps[i] = 2 ^ (i - 1)
          /\ IsAPIError(outcomes[i])
          /\ i < 3
    /\ \A k \in 1..Len(outcomes) :
          (IsAPIError(outcomes[k]) /\ k < 3) => Len(sleeps) >= k
    /\ (Len(outcomes) = 3 /\ IsAPIError(outcomes[3])) => (pc = "idle" /\ Len(sleeps) = 2)
    /\ (Len(outcomes) = 3 /\ Conforms(outcomes[3]))
          => (sleeps = <<1, 2>> /\ report.t = "ATSResult")

C4_Witness ==
    /\ CallReturned
    /\ Len(outcomes) = 3
    /\ IsAPIError(outcomes[1])
    /\ IsAPIError(outcomes[2])
    /\ Conforms(outcomes[3])
    /\ sleeps = <<1, 2>>
    /\ report.t = "ATSResult"

\* a returned call has a result and no error report, or no result and one error
OneOutcome ==
    CallReturned =>
        \/ report.t = "ATSResult" /\ errors = <<>>
        \/ report = None /\ Len(errors) = 1

\* nothing is reported or returned while the call is running
NoPartialOutcome == pc # "idle" => (report = None /\ errors = <<>>)

\* C5: every call ends, and ends with exactly one outcome: a result and no
\* error report, or no result and exactly one error report
C5_TerminatesWithOneOutcome ==
    /\ []OneOutcome
    /\ []NoPartialOutcome
    /\ [](pc # "idle" => <>CallReturned)

C5_Witness ==
    /\ CallReturned
    /\ Len(outcomes) = 3
    /\ report = None
    /\ Len(errors) = 1

\* C6 as stated: a rate limit, server error or network error on attempt 1 or 2
\* is followed by a sleep, and the call has not returned on it
C6_TransientAlwaysRetried ==
    \A k \in 1..Len(outcomes) :
        (k < 3 /\ (IsAPIError(outcomes[k]) \/ IsTransportError(outcomes[k])))
          => /\ Len(sleeps) >= k
             /\ (k = Len(outcomes) => pc # "idle")

\* C6 amended: an API error (rate limit, server error) on attempt 1 or 2 is
\* followed by a sleep and the call goes on; a network error that is not an API
\* error ends the call at once with an unexpected failure, on any attempt
C6_OnlyApiErrorsRetried ==
    \A k \in 1..Len(outcomes) :
        /\ (k < 3 /\ IsAPIError(outcomes[k]))
              => /\ Len(sleeps) >= k
                 /\ (k = Len(outcomes) => pc # "idle")
        /\ IsTransportError(outcomes[k])
              => /\ k = Len(outcomes)
                 /\ pc = "idle"
                 /\ report = None
                 /\ errors = <<Error("unexpected", outcomes[k].exc)>>
                 /\ Len(sleeps) = k - 1

C6_Witness ==
    /\ CallReturned
    /\ Len(outcomes) = 2
    /\ IsAPIError(outcomes[1])
    /\ IsTransportError(outcomes[2])
    /\ sleeps = <<1>>
    /\ errors = <<Error("unexpected", outcomes[2].exc)>>

\* every page of the PDF is empty or whitespace
WhitespaceOnly(f) ==
    /\ f.t = "pdf"
    /\ ~f.corrupt
    /\ \A i \in 1..Len(f.pages) : IsBlank(f.pages[i])

\* C7: analyze_resume_ats is invoked, and a request sent, only with a client
\* handle, a key in the environment, an uploaded PDF whose text is not blank and
\* a non-empty job description; a whitespace-only PDF gives an extraction failure
\* and no invocation
C7_RequestsOnlyWithValidInputs ==
    /\ (called \/ pc # "idle" \/ outcomes # <<>>)
          => /\ called
             /\ client_cache.value = "client"
             /\ api_key
             /\ uploaded_file.t = "pdf"
             /\ ~uploaded_file.corrupt
             /\ ~WhitespaceOnly(uploaded_file)
             /\ ~IsBlank(call_args.resume_text)
             /\ call_args.jd_text # <<>>
             /\ call_args.jd_text = jd_text
    /\ ~api_key => ~called
    /\ (WhitespaceOnly(uploaded_file) /\ client_cache.value = "client")
          => /\ "extraction_failed" \in messages
             /\ ~called
             /\ outcomes = <<>>

C7_Witness ==
    /\ uploaded_file = Pdf(FALSE, <<(<<" ">>), (<<" ">>)>>)
    /\ jd_text = <<"j">>
    /\ client_cache.value = "client"
    /\ "no_resume_text" \in messages
    /\ "extraction_failed" \in messages
    /\ ~called

\* C8: whatever failed before (genai.Client() itself never having raised), once
\* the page has run with a key in the environment a submission can be made: a
\* file can be uploaded, and with a readable PDF and a job description entered
\* pressing the button starts an analysis
C8_ReadyAfterAnyError ==
    (/\ pc = "idle"
     /\ api_key
     /\ client_cache # Unset
     /\ "client_init_failed" \notin client_cache.msgs)
        => /\ ENABLED UploadFile
           /\ (/\ uploaded_file.t = "pdf"
               /\ ~uploaded_file.corrupt
               /\ ~WhitespaceOnly(uploaded_file)
               /\ jd_text # <<>>)
                 => ENABLED (ClickAnalyze /\ pc' = "generate_content")

IsOtherError(o) ==
    /\ o.k = "raise"
    /\ o.exc.cls \notin {"APIError", "ValueError", "JSONDecodeError", "ValidationError"}

C10_OutOfRangeScorePassedThrough ==
    \A k \in 1..Len(outcomes) :
        (Conforms(outcomes[k]) /\ outcomes[k].text.score.i \notin 0..100)
          => /\ report.t = "ATSResult"
             /\ report.score = outcomes[k].text.score.i
             /\ report.score \notin 0..100
             /\ errors = <<>>

C10_Witness ==
    /\ CallReturned
    /\ report.t = "ATSResult"
    /\ report.score = 150
    /\ displayed = report

====
